---------------------------- MODULE Spec2Model ----------------------------
(***************************************************************************)
(* A model of studiolibrarymaya/animitem.py: the staged save and the       *)
(* option / time-window resolution of AnimItem.                            *)
(*                                                                         *)
(* Python values are represented as follows.                               *)
(*   str            a sequence of one-character strings; "" is << >>       *)
(*   None (frames)  << >>; a frame number n is the boxed value <<n>>       *)
(*   list/pair      a sequence; None and the empty list are both << >>     *)
(*                  (both are falsy, which is all the code asks of them)   *)
(*   option = None  NoneOpt, a value that is not a character sequence      *)
(*   contents       a reference ("None", "L1", "L2") into the caller's     *)
(*                  heap of list objects, because save mutates the list    *)
(***************************************************************************)
EXTENDS Integers, Sequences, FiniteSets, TLC

VARIABLES
    store,      \* permanent locations: path -> bundle, or NoBundle
    itemPath,   \* BaseItem.path() of the item
    heap,       \* the caller's list objects: reference -> current elements
    staging,    \* the "Transfer" temp directory: file name -> owner (0: absent)
    nSaves,     \* number of sequential save calls made so far
    last,       \* the call that has just been made and what it did, until
                \* it returns to the caller; [op |-> "idle"] between calls
    pc,         \* position of each concurrent save call
    frame,      \* locals of each concurrent save call
    promoted    \* what each concurrent save call's commit moved into place

vars == <<store, itemPath, heap, staging, nSaves, last, pc, frame, promoted>>

concVars == <<pc, frame, promoted>>

-----------------------------------------------------------------------------
(* Bounds *)

MaxSaves == 3

-----------------------------------------------------------------------------
(* Python strings *)

None == << >>

NoneOpt == <<"None">>

UpperChars == <<"A","B","C","D","E","F","G","H","I","J","K","L","M",
                "N","O","P","Q","R","S","T","U","V","W","X","Y","Z">>

LowerChars == <<"a","b","c","d","e","f","g","h","i","j","k","l","m",
                "n","o","p","q","r","s","t","u","v","w","x","y","z">>

LowerChar(c) ==
    IF \E i \in 1..Len(UpperChars) : UpperChars[i] = c
    THEN LowerChars[CHOOSE i \in 1..Len(UpperChars) : UpperChars[i] = c]
    ELSE c

\* str.lower()
Lower(s) == [i \in 1..Len(s) |-> LowerChar(s[i])]

\* str.endswith(suffix)
EndsWith(s, suffix) ==
    /\ Len(s) >= Len(suffix)
    /\ SubSeq(s, Len(s) - Len(suffix) + 1, Len(s)) = suffix

DotAnim == <<".","a","n","i","m">>

ReplaceAll == <<"r","e","p","l","a","c","e"," ","a","l","l">>

ReplaceCompletely ==
    <<"r","e","p","l","a","c","e","C","o","m","p","l","e","t","e","l","y">>

Range(s) == {s[i] : i \in 1..Len(s)}


-----------------------------------------------------------------------------
(* Input domains *)

Str_f == <<"f">>
Str_fAnim == <<"f",".","a","n","i","m">>
Str_fAnimAnim == <<"f",".","a","n","i","m",".","a","n","i","m">>
Str_fANIM == <<"f",".","A","N","I","M">>
Str_fANIMAnim == <<"f",".","A","N","I","M",".","a","n","i","m">>

\* the path argument of save
SavePaths == {<< >>, Str_f, Str_fAnim, Str_fAnimAnim, Str_fANIM}

\* the permanent locations a bundle can be committed to
Locations == {Str_fAnim, Str_fAnimAnim, Str_fANIMAnim}

Opt_replace == <<"r","e","p","l","a","c","e">>
Opt_insert == <<"i","n","s","e","r","t">>
Opt_merge == <<"m","e","r","g","e">>
Opt_Merge == <<"M","e","r","g","e">>
Opt_ReplaceAll == <<"R","e","p","l","a","c","e"," ","A","l","l">>
Opt_REPLACEALL == <<"R","E","P","L","A","C","E"," ","A","L","L">>
Opt_replaceall == <<"r","e","p","l","a","c","e","a","l","l">>
Opt_replacecompletely ==
    <<"r","e","p","l","a","c","e","c","o","m","p","l","e","t","e","l","y">>

\* the option argument of load
Options == {NoneOpt, ReplaceAll, Opt_ReplaceAll, Opt_REPLACEALL, Opt_replace,
            Opt_insert, Opt_merge, Opt_Merge, ReplaceCompletely,
            Opt_replaceall, Opt_replacecompletely}

Box(n) == <<n>>

\* the source argument of load: None, the sentinel [0, 0], or a TimeRange
Sources == {None,
            <<Box(0), Box(0)>>,
            <<Box(50), Box(100)>>,
            <<Box(0), Box(200)>>,
            <<Box(0), Box(50)>>,
            <<Box(50), Box(0)>>}

\* the export window (startFrame, endFrame) of save; None means "unset"
Windows == {<<None, None>>, <<Box(0), Box(200)>>, <<Box(10), Box(20)>>}

\* the remaining arguments of load, which are passed through
OtherArgs ==
    { [objects |-> None, namespaces |-> None, startFrame |-> None,
       connect |-> FALSE, currentTime |-> FALSE],
      [objects |-> <<"pCube1">>, namespaces |-> None, startFrame |-> None,
       connect |-> TRUE, currentTime |-> FALSE],
      [objects |-> <<"pCube1">>, namespaces |-> <<"ns">>, startFrame |-> Box(10),
       connect |-> FALSE, currentTime |-> TRUE] }

-----------------------------------------------------------------------------
(* The item and its bundle *)

NoBundle == [present |-> FALSE, files |-> {}, range |-> <<None, None>>]

\* AnimItem.startFrame: the start frame recorded by the bundle's transfer object
StartFrame == store[itemPath].range[1]

\* AnimItem.endFrame
EndFrame == store[itemPath].range[2]

-----------------------------------------------------------------------------
(* AnimItem.loadOptions *)

\* x or 0
OrZero(x) == IF x = None \/ x = Box(0) THEN Box(0) ELSE x

\* a slip of the pen: endFrame = self.startFrame() or 0
SourceDefaultStartOnly(start, end) == <<OrZero(start), OrZero(start)>>

SourceDefault(start, end) == <<OrZero(start), OrZero(end)>>

LoadOptionsResult(start, end) ==
    << [name |-> "connect", type |-> "bool", default |-> FALSE],
       [name |-> "currentTime", type |-> "bool", default |-> TRUE],
       [name |-> "source", type |-> "range",
        default |-> SourceDefault(start, end), persistent |-> FALSE],
       [name |-> "option", type |-> "enum", default |-> ReplaceAll,
        items |-> <<Opt_replace, ReplaceAll, Opt_insert, Opt_merge>>] >>

LoadOptions ==
    /\ last.op = "idle"
    /\ last' = [op |-> "loadOptions",
                result |-> LoadOptionsResult(StartFrame, EndFrame)]
    /\ UNCHANGED <<store, itemPath, heap, staging, nSaves>>
    /\ UNCHANGED concVars

-----------------------------------------------------------------------------
(* AnimItem.load *)

\* (option or "").lower(): a missing option tolerated
LowerNeverRaises(option) == FALSE

\* option.lower() raises AttributeError when option is None
LowerRaises(option) == option = NoneOpt

\* the comparison of optionsChanged, which does not fold the case
NormalizeOptionCaseSensitive(option) ==
    IF option = ReplaceAll THEN ReplaceCompletely ELSE option

NormalizeOption(option) ==
    IF Lower(option) = ReplaceAll THEN ReplaceCompletely ELSE option

\* "if source:", the sentinel forgotten
UnpackSourceNoSentinel(source) ==
    IF source # << >> THEN source ELSE <<None, None>>

\* "if source and source != [0, 0]": (sourceStart, sourceEnd) before the fill
UnpackSource(source) ==
    IF source # << >> /\ source # <<Box(0), Box(0)>>
    THEN source
    ELSE <<None, None>>

\* "if not sourceStart:" for "if sourceStart is None:", and so for sourceEnd
SourceTimeFalsy(source, start, end) ==
    LET unpacked == UnpackSource(source)
        sourceStart == IF unpacked[1] = None \/ unpacked[1] = Box(0)
                       THEN start ELSE unpacked[1]
        sourceEnd == IF unpacked[2] = None \/ unpacked[2] = Box(0)
                     THEN end ELSE unpacked[2]
    IN  <<sourceStart, sourceEnd>>

SourceTime(source, start, end) ==
    LET unpacked == UnpackSource(source)
        sourceStart == IF unpacked[1] = None THEN start ELSE unpacked[1]
        sourceEnd == IF unpacked[2] = None THEN end ELSE unpacked[2]
    IN  <<sourceStart, sourceEnd>>

\* the request load forwards to TransferObject.load
LoadRequest(args, source, option, start, end) ==
    [objects |-> IF args.objects = None THEN << >> ELSE args.objects,
     namespaces |-> args.namespaces,
     currentTime |-> args.currentTime,
     connect |-> args.connect,
     option |-> NormalizeOption(option),
     startFrame |-> args.startFrame,
     sourceTime |-> SourceTime(source, start, end)]

\* the completion entry logged in a "finally:"
LoadEventsLoadedAlways(option, engineOk) ==
    <<"log Loading">>
    \o (IF LowerRaises(option) THEN << >> ELSE <<"TransferObject.load">>)
    \o <<"log Loaded">>

\* what load does, in order; engineOk: TransferObject.load returns normally
LoadEvents(option, engineOk) ==
    <<"log Loading">>
    \o (IF LowerRaises(option) THEN << >>
        ELSE <<"TransferObject.load">>
             \o (IF engineOk THEN <<"log Loaded">> ELSE << >>))

Load(args, source, option, engineOk) ==
    LET events == LoadEvents(option, engineOk)
        forwarded == \E i \in 1..Len(events) : events[i] = "TransferObject.load"
    IN  /\ last' = [op |-> "load",
                    source |-> source,
                    option |-> option,
                    args |-> args,
                    events |-> events,
                    requests |-> IF forwarded
                                 THEN <<LoadRequest(args, source, option,
                                                    StartFrame, EndFrame)>>
                                 ELSE << >>,
                    raised |-> LowerRaises(option) \/ ~engineOk]
        /\ UNCHANGED <<store, itemPath, heap, staging, nSaves>>
        /\ UNCHANGED concVars

-----------------------------------------------------------------------------
(* AnimItem.save: its parts *)

\* "if path: path += ".anim"", the extension not looked for
NormalizeSavePathAlways(path) ==
    IF path # << >> THEN path \o DotAnim ELSE path

\* "if path and not path.endswith(".anim"): path += ".anim""
NormalizeSavePath(path) ==
    IF path # << >> /\ ~EndsWith(path, DotAnim) THEN path \o DotAnim ELSE path

\* The list objects the caller owns, as the caller built them.
\* L1 is what AnimCreateWidget.save builds: [os.path.dirname(sequencePath)].
CallerLists == [L1 |-> <<"sequence">>, L2 |-> << >>]

ContentRefs == {"None", "L1", "L2"}

\* the elements of the caller's list at the time of the call
Passed(h, ref) == IF ref = "None" THEN << >> ELSE h[ref]

\* "contents = contents or list()": the list object save goes on to work with.
\* A truthy argument is the caller's own object; otherwise a fresh list.
ContentsObject(h, ref) == IF Passed(h, ref) # << >> THEN ref ELSE "fresh"

ContentsOrList(h, ref) == Passed(h, ref)

IconPaths == {"", "thumbnail.jpg"}

FileTypes == {"mayaAscii", "mayaBinary"}

\* the files in the temp directory, below tempPath = <TempDir>/transfer.anim
StagedNames == {"transfer.anim/animation.ma", "transfer.anim/animation.mb",
                "transfer.anim/pose.json"}

\* TransferObject.paths(): the files anim.save wrote
Paths(fileType) ==
    IF fileType = "mayaAscii"
    THEN <<"transfer.anim/animation.ma", "transfer.anim/pose.json">>
    ELSE <<"transfer.anim/animation.mb", "transfer.anim/pose.json">>

\* mutils.TempDir("Transfer", clean=True): the directory is named by its
\* argument alone, and clean=True removes whatever it holds.
TempDir(dir) == [f \in DOMAIN dir |-> 0]

\* anim.save(tempPath, ...): writes its files into the directory, as owner
AnimSaveWrites(dir, files, owner) ==
    [f \in DOMAIN dir |-> IF f \in Range(files) THEN owner ELSE dir[f]]

\* "if iconPath: contents.append(iconPath)" and "contents.extend(anim.paths())"
FinalContents(contents, iconPath, paths) ==
    (IF iconPath # "" THEN Append(contents, iconPath) ELSE contents) \o paths

\* the range the transfer object records: the export window, or what the
\* engine captured live where the window is unset
Recorded(window, live) ==
    <<IF window[1] = None THEN live[1] ELSE window[1],
      IF window[2] = None THEN live[2] ELSE window[2]>>

LiveRanges == {<<Box(0), Box(200)>>, <<Box(10), Box(20)>>}

\* The statements of save that can raise, in order.
SaveSteps == <<"TempDir", "fromObjects", "updateMetadata", "anim.save",
               "anim.paths", "BaseItem.save">>

FailPoints == {"none", "fromObjects", "updateMetadata", "anim.save",
               "BaseItem.save"}

StepIndex(step) == CHOOSE i \in 1..Len(SaveSteps) : SaveSteps[i] = step

\* every statement wrapped in a try/except that swallows
ReachedSwallowed(step, failAt) == TRUE

\* An exception propagates: a statement runs only if none before it raised.
Reached(step, failAt) ==
    failAt = "none" \/ StepIndex(step) <= StepIndex(failAt)

\* the statement ran and returned normally
Completed(step, failAt) == Reached(step, failAt) /\ step # failAt

SaveEvents(failAt) ==
    SelectSeq(SaveSteps, LAMBDA step : Reached(step, failAt))

\* BaseItem.save(path, contents): an empty path means the item's own path
CommitLocation(path, own) == IF path = << >> THEN own ELSE path

\* BaseItem.save moves the named files into the permanent location
Promote(st, loc, contents, range) ==
    [st EXCEPT ![loc] = [present |-> TRUE, files |-> Range(contents),
                         range |-> range]]

MoveOut(dir, contents) ==
    [f \in DOMAIN dir |-> IF f \in Range(contents) THEN 0 ELSE dir[f]]

-----------------------------------------------------------------------------
(* AnimItem.save, as one call *)

Save(path, ref, iconPath, fileType, window, live, failAt, partial) ==
    LET finalPath == NormalizeSavePath(path)
        object == ContentsObject(heap, ref)
        contents == ContentsOrList(heap, ref)
        cleaned == TempDir(staging)
        serialized == Completed("anim.save", failAt)
        paths == Paths(fileType)
        written == IF serialized THEN paths
                   ELSE IF Reached("anim.save", failAt) /\ partial THEN paths
                   ELSE << >>
        staged == AnimSaveWrites(cleaned, written, 1)
        final == IF serialized THEN FinalContents(contents, iconPath, paths)
                 ELSE contents
        invoked == Reached("BaseItem.save", failAt)
        committed == Completed("BaseItem.save", failAt)
        loc == CommitLocation(finalPath, itemPath)
    IN  /\ nSaves' = nSaves + 1
        /\ heap' = IF object = "fresh" THEN heap
                   ELSE [heap EXCEPT ![object] = final]
        /\ staging' = IF committed THEN MoveOut(staged, final) ELSE staged
        /\ store' = IF committed
                    THEN Promote(store, loc, final, Recorded(window, live))
                    ELSE store
        /\ itemPath' = IF committed THEN loc ELSE itemPath
        /\ last' = [op |-> "save",
                    path |-> path,
                    ref |-> ref,
                    passed |-> Passed(heap, ref),
                    iconPath |-> iconPath,
                    fileType |-> fileType,
                    failAt |-> failAt,
                    events |-> SaveEvents(failAt),
                    paths |-> IF serialized THEN paths ELSE << >>,
                    commits |-> IF invoked
                                THEN <<[path |-> finalPath, contents |-> final]>>
                                ELSE << >>,
                    raised |-> \E i \in 1..Len(SaveSteps) :
                                  /\ Reached(SaveSteps[i], failAt)
                                  /\ ~Completed(SaveSteps[i], failAt)]
        /\ UNCHANGED concVars

-----------------------------------------------------------------------------
(* Sequential use: "single-threaded, synchronous, call-and-return" *)

Idle == [op |-> "idle"]

Init ==
    /\ store = [l \in Locations |-> NoBundle]
    /\ itemPath = Str_fAnim
    /\ heap = CallerLists
    /\ staging = [f \in StagedNames |-> 0]
    /\ nSaves = 0
    /\ last = Idle
    /\ pc = [p \in {1, 2} |-> "idle"]
    /\ frame = [p \in {1, 2} |-> [op |-> "none"]]
    /\ promoted = [p \in {1, 2} |-> << >>]

\* the call returns (or raises) to its caller, which may then make the next
Return ==
    /\ last.op # "idle"
    /\ last' = Idle
    /\ UNCHANGED <<store, itemPath, heap, staging, nSaves>>
    /\ UNCHANGED concVars

DefaultWindow == <<Box(0), Box(200)>>

\* save with every combination of path, contents, icon, file type and failure
SaveCall ==
    /\ last.op = "idle"
    /\ nSaves < MaxSaves
    /\ \E path \in SavePaths, ref \in ContentRefs, iconPath \in IconPaths,
          fileType \in FileTypes, failAt \in FailPoints, partial \in BOOLEAN :
        /\ partial => failAt = "anim.save"
        /\ Save(path, ref, iconPath, fileType, DefaultWindow, DefaultWindow,
                failAt, partial)

\* save as a script calls it (the module's docstring): no contents, no icon,
\* with every export window
SaveScript ==
    /\ last.op = "idle"
    /\ nSaves < MaxSaves
    /\ \E path \in {<< >>, Str_fANIM}, window \in Windows, live \in LiveRanges,
          failAt \in FailPoints :
        /\ window[1] # None => live = DefaultWindow
        /\ Save(path, "None", "", "mayaAscii", window, live, failAt, FALSE)

LoadCall ==
    /\ last.op = "idle"
    /\ \E args \in OtherArgs, source \in Sources, option \in Options,
          engineOk \in BOOLEAN :
        Load(args, source, option, engineOk)

\* saving: AnimItem.save on every input
NextSave == SaveCall \/ Return

SpecSave == Init /\ [][NextSave]_vars

\* replaying: AnimItem.load and loadOptions between saves
NextLoad == SaveScript \/ LoadCall \/ LoadOptions \/ Return

SpecLoad == Init /\ [][NextLoad]_vars

-----------------------------------------------------------------------------
(* Concurrent use: two save calls whose statements interleave, each on an   *)
(* item of its own, in processes that share the file system                 *)

Procs == {1, 2}

CBegin(p) ==
    /\ pc[p] = "idle"
    /\ \E path \in {Str_f, Str_fANIM}, iconPath \in IconPaths,
          fileType \in FileTypes :
        frame' = [frame EXCEPT ![p] =
                    [op |-> "save",
                     path |-> NormalizeSavePath(path),
                     contents |-> ContentsOrList(heap, "None"),
                     iconPath |-> iconPath,
                     fileType |-> fileType,
                     paths |-> << >>]]
    /\ pc' = [pc EXCEPT ![p] = "TempDir"]
    /\ UNCHANGED <<promoted, staging, store>>
    /\ UNCHANGED <<itemPath, heap, nSaves, last>>

CTempDir(p) ==
    /\ pc[p] = "TempDir"
    /\ staging' = TempDir(staging)
    /\ pc' = [pc EXCEPT ![p] = "fromObjects"]
    /\ UNCHANGED <<frame, promoted, store>>
    /\ UNCHANGED <<itemPath, heap, nSaves, last>>

CFromObjects(p) ==
    /\ pc[p] = "fromObjects"
    /\ \E ok \in BOOLEAN :
        pc' = [pc EXCEPT ![p] = IF ok THEN "updateMetadata" ELSE "raised"]
    /\ UNCHANGED <<frame, promoted, staging, store>>
    /\ UNCHANGED <<itemPath, heap, nSaves, last>>

CUpdateMetadata(p) ==
    /\ pc[p] = "updateMetadata"
    /\ \E ok \in BOOLEAN :
        pc' = [pc EXCEPT ![p] = IF ok THEN "anim.save" ELSE "raised"]
    /\ UNCHANGED <<frame, promoted, staging, store>>
    /\ UNCHANGED <<itemPath, heap, nSaves, last>>

CAnimSave(p) ==
    /\ pc[p] = "anim.save"
    /\ \E ok \in BOOLEAN, partial \in BOOLEAN :
        /\ ok => ~partial
        /\ staging' = IF ok \/ partial
                      THEN AnimSaveWrites(staging, Paths(frame[p].fileType), p)
                      ELSE staging
        /\ pc' = [pc EXCEPT ![p] = IF ok THEN "contents" ELSE "raised"]
    /\ UNCHANGED <<frame, promoted, store>>
    /\ UNCHANGED <<itemPath, heap, nSaves, last>>

CContents(p) ==
    /\ pc[p] = "contents"
    /\ frame' = [frame EXCEPT
                    ![p].paths = Paths(frame[p].fileType),
                    ![p].contents = FinalContents(frame[p].contents,
                                                  frame[p].iconPath,
                                                  Paths(frame[p].fileType))]
    /\ pc' = [pc EXCEPT ![p] = "BaseItem.save"]
    /\ UNCHANGED <<promoted, staging, store>>
    /\ UNCHANGED <<itemPath, heap, nSaves, last>>

\* the staged files a commit is asked to move, and whose each one is now
Found(dir, contents) ==
    [f \in Range(contents) \cap DOMAIN dir |-> dir[f]]

CCommit(p) ==
    /\ pc[p] = "BaseItem.save"
    /\ LET found == Found(staging, frame[p].contents)
           missing == \E f \in DOMAIN found : found[f] = 0
       IN  \E ok \in BOOLEAN :
            IF ok /\ ~missing
            THEN /\ promoted' = [promoted EXCEPT ![p] = found]
                 /\ store' = Promote(store, frame[p].path, frame[p].contents,
                                     DefaultWindow)
                 /\ staging' = MoveOut(staging, frame[p].contents)
                 /\ pc' = [pc EXCEPT ![p] = "done"]
            ELSE /\ pc' = [pc EXCEPT ![p] = "raised"]
                 /\ UNCHANGED <<promoted, store, staging>>
    /\ UNCHANGED frame
    /\ UNCHANGED <<itemPath, heap, nSaves, last>>

NextConc ==
    \E p \in Procs :
        \/ CBegin(p)
        \/ CTempDir(p)
        \/ CFromObjects(p)
        \/ CUpdateMetadata(p)
        \/ CAnimSave(p)
        \/ CContents(p)
        \/ CCommit(p)

SpecConc == Init /\ [][NextConc]_vars

-----------------------------------------------------------------------------
(* Properties *)

Count(seq, x) == Cardinality({i \in 1..Len(seq) : seq[i] = x})

\* how many times ".anim" is repeated at the end of a path
RECURSIVE SuffixCount(_)
SuffixCount(s) ==
    IF EndsWith(s, DotAnim)
    THEN 1 + SuffixCount(SubSeq(s, 1, Len(s) - Len(DotAnim)))
    ELSE 0

persistent == <<store, itemPath, heap, staging, nSaves>>

BeforeCommit == {"fromObjects", "updateMetadata", "anim.save"}

\* C1: a save in which fromObjects, updateMetadata or anim.save raises never
\* invokes BaseItem.save, leaves every permanent location and the item's path
\* as they were, and raises to the caller; and BaseItem.save is only ever
\* invoked after anim.save has run and returned.
C1_SaveAllOrNothing ==
    [][(last.op = "idle" /\ last'.op = "save") =>
        /\ last'.failAt \in BeforeCommit =>
            /\ last'.commits = << >>
            /\ Count(last'.events, "BaseItem.save") = 0
            /\ store' = store
            /\ itemPath' = itemPath
            /\ last'.raised
        /\ last'.commits # << >> =>
            /\ last'.failAt \notin BeforeCommit
            /\ \E i, j \in 1..Len(last'.events) :
                /\ i < j
                /\ last'.events[i] = "anim.save"
                /\ last'.events[j] = "BaseItem.save"
      ]_vars

\* C1, reached: a save that fails in serialization, after an earlier save has committed
C1_Witness ==
    /\ last.op = "save"
    /\ last.failAt = "anim.save"
    /\ store[itemPath].present
    /\ last.commits = << >>

\* what the caller put into the list it passes as contents
Extras(ref) == IF ref = "None" THEN << >> ELSE CallerLists[ref]

\* C2: for every successful save, after any earlier saves, the set of paths
\* handed to BaseItem.save is {iconPath, if given} with the paths that
\* TransferObject.paths() reported for this save and the extra contents the
\* caller supplied: nothing missing, nothing else.
C2_CommitSetExact ==
    (last.op = "save" /\ last.failAt = "none") =>
        /\ Len(last.commits) = 1
        /\ Range(last.commits[1].contents) =
              (IF last.iconPath # "" THEN {last.iconPath} ELSE {})
              \cup Range(last.paths)
              \cup Range(Extras(last.ref))

\* C3: each save owns its staging directory: while a call has staged its
\* files and not yet committed them, they are in the directory as that call
\* wrote them, whatever another call does meanwhile; and what a call's commit
\* moves into place is what that call staged.
C3_StagingExclusive ==
    \A p \in Procs :
        /\ pc[p] \in {"contents", "BaseItem.save"} =>
              \A f \in Range(Paths(frame[p].fileType)) : staging[f] = p
        /\ pc[p] = "done" =>
              \A f \in DOMAIN promoted[p] : promoted[p][f] = p

C5_ExplicitSourceIsForwarded ==
    (last.op = "load" /\ last.source \notin {None, <<Box(0), Box(0)>>}) =>
        \A i \in 1..Len(last.requests) :
            last.requests[i].sourceTime = last.source

\* C5, reached: an explicit source starting at frame 0, for a bundle recorded as (10, 20)
C5_Witness ==
    /\ last.op = "load"
    /\ last.source = <<Box(0), Box(50)>>
    /\ Len(last.requests) = 1
    /\ last.requests[1].sourceTime = <<Box(0), Box(50)>>
    /\ store[itemPath].range = <<Box(10), Box(20)>>

\* "replace all" in the letter cases the model passes
AnyCaseReplaceAll == {ReplaceAll, Opt_ReplaceAll, Opt_REPLACEALL}

\* C6: load forwards "replaceCompletely" for "replace all" in any letter
\* case and every other option unchanged, and normalizing the forwarded
\* option again yields the same option.
C6_OptionNormalization ==
    last.op = "load" =>
        \A i \in 1..Len(last.requests) :
            LET forwarded == last.requests[i].option
            IN  /\ last.option \in AnyCaseReplaceAll =>
                      forwarded = ReplaceCompletely
                /\ last.option \notin AnyCaseReplaceAll =>
                      forwarded = last.option
                /\ NormalizeOption(forwarded) = forwarded

\* C6, reached: "REPLACE ALL" forwarded as replaceCompletely
C6_Witness ==
    /\ last.op = "load"
    /\ last.option = Opt_REPLACEALL
    /\ Len(last.requests) = 1
    /\ last.requests[1].option = ReplaceCompletely

\* C7 as claimed: for every non-empty path p the path handed to
\* BaseItem.save ends with exactly one ".anim", is the path that
\* save(path = p + ".anim") is handed, and is p itself if p ends with ".anim".
C7_Original ==
    (last.op = "save" /\ last.path # << >> /\ last.commits # << >>) =>
        LET handed == last.commits[1].path
        IN  /\ SuffixCount(handed) = 1
            /\ handed = NormalizeSavePath(last.path \o DotAnim)
            /\ EndsWith(last.path, DotAnim) => handed = last.path

\* C7, amended: for every non-empty path p the path handed to BaseItem.save
\* ends with ".anim"; a p that ends with ".anim" is handed on unchanged; any
\* other p is handed on as p + ".anim", with the suffix once, which is the
\* path that save(path = p + ".anim") is handed.
C7_PathNormalization ==
    (last.op = "save" /\ last.path # << >> /\ last.commits # << >>) =>
        LET handed == last.commits[1].path
        IN  /\ EndsWith(handed, DotAnim)
            /\ EndsWith(last.path, DotAnim) => handed = last.path
            /\ ~EndsWith(last.path, DotAnim) =>
                  /\ handed = last.path \o DotAnim
                  /\ SuffixCount(handed) = 1
                  /\ handed = NormalizeSavePath(last.path \o DotAnim)
                  /\ last.failAt = "none" =>
                        /\ itemPath = last.path \o DotAnim
                        /\ store[last.path \o DotAnim].present

\* C7, reached: save(path = "f") has committed a bundle at "f.anim"
C7_Witness ==
    /\ last.op = "save"
    /\ last.path = Str_f
    /\ last.failAt = "none"
    /\ last.commits[1].path = Str_fAnim
    /\ store[Str_fAnim].present

\* C8: a load without an option raises, forwards nothing to
\* TransferObject.load and does not log the completion entry.
C8_MissingOptionRaises ==
    (last.op = "load" /\ last.option = NoneOpt) =>
        /\ last.raised
        /\ last.requests = << >>
        /\ Count(last.events, "TransferObject.load") = 0
        /\ Count(last.events, "log Loaded") = 0

\* C8, reached: a load without an option, on an item whose bundle exists
C8_Witness ==
    /\ last.op = "load"
    /\ last.option = NoneOpt
    /\ last.raised
    /\ store[itemPath].present

SourceDescriptor(result) ==
    result[CHOOSE i \in 1..Len(result) : result[i].name = "source"]

C10_LoadBracketed ==
    last.op = "load" =>
        LET ev == last.events
            n == Count(ev, "TransferObject.load")
        IN  /\ ev[1] = "log Loading"
            /\ Count(ev, "log Loading") = 1
            /\ n <= 1
            /\ Len(last.requests) = n
            /\ Count(ev, "log Loaded") = (IF last.raised THEN 0 ELSE 1)
            /\ \A i \in 1..Len(ev) :
                  ev[i] = "log Loaded" =>
                      /\ i = Len(ev)
                      /\ n = 1
                      /\ \E j \in 2..(i - 1) : ev[j] = "TransferObject.load"

\* C10, reached: a load in which the replay engine raises: "Loading" without "Loaded"
C10_Witness ==
    /\ last.op = "load"
    /\ last.raised
    /\ last.events = <<"log Loading", "TransferObject.load">>

=============================================================================
